---- MODULE Spec2Model ----
(***************************************************************************)
(* Model of src/main.py of stock-notifier: a scheduled job that, inside    *)
(* trading hours, reads a "last sent date" flag from a remote key-value    *)
(* store, scrapes two exchanges for today's listing announcements, posts   *)
(* them to a WeCom webhook and, on success, writes today's date back.      *)
(*                                                                         *)
(* Conventions.  Python strings that the code only compares or concatenates*)
(* are tuples: the empty string '' is <<>>, an f-string is the tuple of    *)
(* its parts, a title is the tuple of its words ("listing" stands for the  *)
(* word the code searches with `'上市' in title`, "ChiNext" for '创业板',  *)
(* "MainBoard" for '主板').  A calendar date is a day number; strftime     *)
(* tags it with its format.  A time of day is a number of seconds.         *)
(* Message texts are English renderings of the Chinese literals.           *)
(*                                                                         *)
(* Every network call is a step whose outcome the environment chooses      *)
(* among the cases the code distinguishes (an exception, a status, a body).*)
(* The clock does not move while an invocation is active: the calls of one *)
(* invocation to datetime.now() fall on the same calendar day.             *)
(***************************************************************************)
EXTENDS Naturals, Integers, Sequences, FiniteSets, TLC

----------------------------------------------------------------------------
(* Bounds of the model *)

MaxDay == 2          \* calendar days the clock runs through
MaxRuns == 3         \* invocations of main() in one behaviour
MaxItems == 1        \* entries in one exchange response
MaxStocks == 2       \* length of the lists handed to send_wecom_message alone
FirstWeekday == 3    \* weekday() of day 1 (Monday = 0)

----------------------------------------------------------------------------
(* Values *)

Procs == {"A", "B"}

Other(p) == IF p = "A" THEN "B" ELSE "A"

EmptyStr == <<>>

None == <<"None">>

Days == 1..MaxDay

\* datetime.strftime("%Y-%m-%d")
StrfDash(day) == <<"%Y-%m-%d", day>>

\* datetime.time(h, m), in seconds since midnight
time(h, m) == h * 3600 + m * 60

SecondsPerDay == 24 * 3600

\* date.weekday(): Monday is 0, Sunday is 6
weekday(now) == (FirstWeekday + now.day - 1) % 7

\* `kw in title`
Contains(kw, title) == \E i \in DOMAIN title : title[i] = kw

SeqsUpTo(S, n) == UNION {[1..k -> S] : k \in 0..n}

Titles == {<<"ChiNext", "listing">>, <<"listing">>, <<"MainBoard">>}

----------------------------------------------------------------------------
(* Time Gate *)

\* variant: the morning window taken half-open
is_trading_time_strict(now) ==
    IF weekday(now) >= 5 THEN FALSE
    ELSE IF time(9, 30) <= now.tod /\ now.tod < time(11, 30) THEN TRUE
    ELSE IF time(13, 0) <= now.tod /\ now.tod <= time(15, 0) THEN TRUE
    ELSE FALSE

\* now.time() is compared as a whole number of seconds
is_trading_time(now) ==
    IF weekday(now) >= 5 THEN FALSE
    ELSE IF time(9, 30) <= now.tod /\ now.tod <= time(11, 30) THEN TRUE
    ELSE IF time(13, 0) <= now.tod /\ now.tod <= time(15, 0) THEN TRUE
    ELSE FALSE

----------------------------------------------------------------------------
(* Source Fetchers *)

NoSpan == <<"no span">>

NoLink == [title |-> EmptyStr, href |-> None, present |-> FALSE]

ShLinks == {NoLink} \cup [title : {<<"MainBoard", "listing">>, <<"notice">>},
                          href : {None, <<"/sh/a">>}, present : {TRUE}]

\* one <dl> of the Shanghai page: the text of its `dd span` and its `dd a`
ShItems == [span : {NoSpan} \cup {StrfDash(d) : d \in Days}, link : ShLinks]

\* what the GET and the parsing yield: an exception, or the page's <dl> list
ShException == [kind |-> "exception"]

ShResponses == {ShException} \cup [kind : {"page"}, items : SeqsUpTo(ShItems, MaxItems)]

ShMatches(item, today) ==
    /\ item.span # NoSpan
    /\ item.span = StrfDash(today)
    /\ item.link.present
    /\ Contains("listing", item.link.title)

ShRecord(item) ==
    [title |-> item.link.title,
     url |-> <<"http://www.sse.com.cn", item.link.href>>,
     exchange |-> "SSE"]

\* link['href'] raises KeyError when the attribute is missing
ShRaises(page, today) ==
    \E i \in DOMAIN page : ShMatches(page[i], today) /\ page[i].link.href = None

RECURSIVE ShCollect(_, _)
ShCollect(page, today) ==
    IF page = <<>> THEN <<>>
    ELSE IF ShMatches(Head(page), today)
         THEN <<ShRecord(Head(page))>> \o ShCollect(Tail(page), today)
         ELSE ShCollect(Tail(page), today)

\* the try block of get_shanghai_stocks ends in its except clause
ShFails(resp, today) == resp.kind = "exception" \/ ShRaises(resp.items, today)

\* variant: a missing href does not end the try block
get_shanghai_stocks_unguarded(resp, today) ==
    IF resp.kind = "exception" THEN <<>>
    ELSE ShCollect(resp.items, today)

get_shanghai_stocks(resp, today) ==
    IF resp.kind = "exception" THEN <<>>
    ELSE IF ShRaises(resp.items, today) THEN <<>>
    ELSE ShCollect(resp.items, today)

\* one entry of the Shenzhen "data" array
SzItems == [title : Titles, attachPath : {None, <<"/sz/b">>}]

\* what the two requests and response.json() yield: an exception, a JSON
\* object without "data", or one with a "data" array
SzException == [kind |-> "exception"]

SzNoData == [kind |-> "no data"]

SzResponses == {SzException, SzNoData} \cup [kind : {"data"}, data : SeqsUpTo(SzItems, MaxItems)]

SzMatches(item) ==
    /\ Contains("listing", item.title)
    /\ (Contains("ChiNext", item.title) \/ Contains("MainBoard", item.title))

SzRecord(item) ==
    [title |-> item.title,
     url |-> <<"http://www.szse.cn", item.attachPath>>,
     exchange |-> "SZSE"]

\* item['attachPath'] raises KeyError when the key is missing
SzRaises(data) ==
    \E i \in DOMAIN data : SzMatches(data[i]) /\ data[i].attachPath = None

RECURSIVE SzCollect(_)
SzCollect(data) ==
    IF data = <<>> THEN <<>>
    ELSE IF SzMatches(Head(data))
         THEN <<SzRecord(Head(data))>> \o SzCollect(Tail(data))
         ELSE SzCollect(Tail(data))

\* the try block of get_shenzhen_stocks ends in its except clause
SzFails(resp) == resp.kind = "exception" \/ (resp.kind = "data" /\ SzRaises(resp.data))

get_shenzhen_stocks(resp) ==
    IF resp.kind = "exception" THEN <<>>
    ELSE IF resp.kind = "no data" THEN <<>>
    ELSE IF SzRaises(resp.data) THEN <<>>
    ELSE SzCollect(resp.data)

----------------------------------------------------------------------------
(* Notifier *)

\* what the POST yields: an exception, a body that is not a JSON object, or a
\* JSON object (has_errcode is FALSE when it has no "errcode" key; errcode
\* is an integer, as the webhook documents it)
WhException == [kind |-> "exception"]

WhNotJson == [kind |-> "not json"]

WhJson == [kind : {"json"}, has_errcode : BOOLEAN, errcode : {0, 93000},
           errmsg : {<<"invalid webhook">>, None}]

WhResponses == {WhException, WhNotJson} \cup WhJson

\* the markdown body: the heading, then one numbered line per stock
RECURSIVE Lines(_, _)
Lines(stocks, idx) ==
    IF stocks = <<>> THEN <<>>
    ELSE <<<<idx, Head(stocks).exchange, Head(stocks).title, Head(stocks).url>>>>
         \o Lines(Tail(stocks), idx + 1)

markdown_content(stocks) == <<"heading">> \o Lines(stocks, 1)

Payload(stocks) == [msgtype |-> "markdown", markdown |-> [content |-> markdown_content(stocks)]]

\* variant: an answer without "errcode" taken for a success
send_wecom_message_lenient(stocks, resp) ==
    IF stocks = <<>>
    THEN [success |-> FALSE, msg |-> <<"no stock data">>, post |-> <<>>]
    ELSE IF resp.kind = "exception"
    THEN [success |-> FALSE, msg |-> <<"push failed", "transport error">>, post |-> <<Payload(stocks)>>]
    ELSE IF resp.kind = "not json"
    THEN [success |-> FALSE, msg |-> <<"push failed", "json decode error">>, post |-> <<Payload(stocks)>>]
    ELSE IF (~resp.has_errcode) \/ resp.errcode = 0
    THEN [success |-> TRUE, msg |-> <<"push succeeded">>, post |-> <<Payload(stocks)>>]
    ELSE [success |-> FALSE, msg |-> <<"wecom error", resp.errmsg>>, post |-> <<Payload(stocks)>>]

\* (success, msg) of send_wecom_message, with the bodies it posted
send_wecom_message(stocks, resp) ==
    IF stocks = <<>>
    THEN [success |-> FALSE, msg |-> <<"no stock data">>, post |-> <<>>]
    ELSE IF resp.kind = "exception"
    THEN [success |-> FALSE, msg |-> <<"push failed", "transport error">>, post |-> <<Payload(stocks)>>]
    ELSE IF resp.kind = "not json"
    THEN [success |-> FALSE, msg |-> <<"push failed", "json decode error">>, post |-> <<Payload(stocks)>>]
    ELSE IF resp.has_errcode /\ resp.errcode = 0
    THEN [success |-> TRUE, msg |-> <<"push succeeded">>, post |-> <<Payload(stocks)>>]
    ELSE [success |-> FALSE, msg |-> <<"wecom error", resp.errmsg>>, post |-> <<Payload(stocks)>>]

----------------------------------------------------------------------------
(* State Store Client *)

\* what can happen to the GET: the request or the decoding of its body
\* raises, the store answers with another status than 200, or it answers 200
\* with its value
GetOutcomes == {"exception", "non200", "ok"}

\* variant: the stored date never reaches the caller
get_kv_state_blank(outcome, stored) == EmptyStr

get_kv_state(outcome, stored) ==
    IF outcome = "exception" THEN EmptyStr
    ELSE IF outcome = "ok" THEN stored
    ELSE EmptyStr

\* what can happen to the PUT: the request raises before it reaches the
\* store, it raises after the store applied it (the answer is lost), the
\* store applies it and answers, or the store rejects it with an error status
PutOutcomes == {"exception", "exception after write", "ok", "rejected"}

set_kv_state(outcome) ==
    IF outcome \in {"exception", "exception after write"} THEN FALSE ELSE TRUE

\* the value the store holds after the PUT
StoreAfterPut(outcome, stored, date) ==
    IF outcome \in {"ok", "exception after write"} THEN date ELSE stored

----------------------------------------------------------------------------
(* Orchestrator: main(), one invocation per process slot *)

VARIABLES
    now,         \* datetime.now(TIMEZONE): [day, tod]
    kv,          \* last_sent_date held by the remote store
    pc,          \* where each invocation of main() stands
    today_str,   \* main()'s today_str, '' until it is computed
    stocks,      \* main()'s stocks
    success,     \* main()'s success
    msg,         \* main()'s msg
    posted,      \* bodies the invocation posted to the webhook
    putLog,      \* outcomes and return values of the invocation's set_kv_state calls
    calls,       \* number of calls the invocation made, per operation
    got,         \* what each fetcher returned to the invocation
    raised,      \* the fetchers of the invocation that caught an exception
    kvAtStart,   \* value of the store when the invocation started
    lastRun,     \* date and result of the invocation that returned last
    delivered,   \* per date, number of invocations whose send reported success
    runs,        \* invocations started so far
    overlapped,  \* two invocations have been active at the same moment
    storeFault,  \* a store request has not been served normally
    gate,        \* argument and result of is_trading_time applied alone
    unit         \* arguments and result of send_wecom_message applied alone

vars == <<now, kv, pc, today_str, stocks, success, msg, posted, putLog, calls,
          got, raised, kvAtStart, lastRun, delivered, runs, overlapped, storeFault, gate, unit>>

runVars == <<now, kv, pc, today_str, stocks, success, msg, posted, putLog, calls,
             got, raised, kvAtStart, lastRun, delivered, runs, overlapped, storeFault>>

Ops == {"get", "sh", "sz", "send", "post", "put"}

NoCalls == [op \in Ops |-> 0]

NoneGot == [sh |-> <<>>, sz |-> <<>>]

\* clock readings at which the scheduler may start the job
ClockSamples == {time(9, 0), time(9, 30)}

Dates == {StrfDash(d) : d \in Days}

StockRecords ==
    {ShRecord([span |-> StrfDash(1), link |-> [title |-> <<"MainBoard", "listing">>, href |-> <<"/sh/a">>, present |-> TRUE]]),
     SzRecord([title |-> <<"ChiNext", "listing">>, attachPath |-> <<"/sz/b">>]),
     SzRecord([title |-> <<"MainBoard", "listing">>, attachPath |-> <<"/sz/b">>])}

GateIdle == [now |-> [day |-> 1, tod |-> 0], result |-> <<>>]

UnitIdle == [stocks |-> <<>>, resp |-> WhException, result |-> <<>>]

InitRuns ==
    /\ now = [day |-> 1, tod |-> time(9, 0)]
    /\ kv = EmptyStr
    /\ pc = [p \in Procs |-> "idle"]
    /\ today_str = [p \in Procs |-> EmptyStr]
    /\ stocks = [p \in Procs |-> <<>>]
    /\ success = [p \in Procs |-> FALSE]
    /\ msg = [p \in Procs |-> <<>>]
    /\ posted = [p \in Procs |-> <<>>]
    /\ putLog = [p \in Procs |-> <<>>]
    /\ calls = [p \in Procs |-> NoCalls]
    /\ got = [p \in Procs |-> NoneGot]
    /\ raised = [p \in Procs |-> {}]
    /\ kvAtStart = [p \in Procs |-> EmptyStr]
    /\ lastRun = [date |-> EmptyStr, result |-> "none"]
    /\ delivered = [d \in Dates |-> 0]
    /\ runs = 0
    /\ overlapped = FALSE
    /\ storeFault = FALSE

Init ==
    /\ InitRuns
    /\ gate = GateIdle
    /\ unit = UnitIdle

Called(p, op) == [calls EXCEPT ![p][op] = @ + 1]

\* the scheduler starts main(); slot B is used only while slot A is busy
Start(p) ==
    /\ pc[p] = "idle"
    /\ runs < MaxRuns
    /\ p = "A" \/ pc["A"] # "idle"
    /\ pc' = [pc EXCEPT ![p] = "gate"]
    /\ runs' = runs + 1
    /\ kvAtStart' = [kvAtStart EXCEPT ![p] = kv]
    /\ overlapped' = (overlapped \/ pc[Other(p)] # "idle")
    /\ UNCHANGED <<now, kv, today_str, stocks, success, msg, posted, putLog, calls,
                   got, raised, lastRun, delivered, storeFault, gate, unit>>

\* main(), lines 160-166
CheckTradingTime(p) ==
    /\ pc[p] = "gate"
    /\ IF ~is_trading_time(now)
       THEN /\ pc' = [pc EXCEPT ![p] = "done"]
            /\ UNCHANGED today_str
       ELSE /\ pc' = [pc EXCEPT ![p] = "state"]
            /\ today_str' = [today_str EXCEPT ![p] = StrfDash(now.day)]
    /\ UNCHANGED <<now, kv, stocks, success, msg, posted, putLog, calls, got, raised,
                   kvAtStart, lastRun, delivered, runs, overlapped, storeFault, gate, unit>>

\* `if get_kv_state() == today_str: return`
AfterStateCheck(last, today) == IF last = today THEN "done" ELSE "sh"

\* main(), lines 167-169
CheckSent(p) ==
    /\ pc[p] = "state"
    /\ \E outcome \in GetOutcomes :
          /\ pc' = [pc EXCEPT ![p] = AfterStateCheck(get_kv_state(outcome, kv), today_str[p])]
          /\ storeFault' = (storeFault \/ outcome # "ok")
    /\ calls' = Called(p, "get")
    /\ UNCHANGED <<now, kv, today_str, stocks, success, msg, posted, putLog, got, raised,
                   kvAtStart, lastRun, delivered, runs, overlapped, gate, unit>>

\* main(), line 173, left operand
FetchShanghai(p) ==
    /\ pc[p] = "sh"
    /\ \E resp \in ShResponses :
          LET sh == get_shanghai_stocks(resp, now.day)
          IN  /\ stocks' = [stocks EXCEPT ![p] = sh]
              /\ got' = [got EXCEPT ![p].sh = sh]
              /\ raised' = [raised EXCEPT ![p] = IF ShFails(resp, now.day) THEN @ \cup {"sh"} ELSE @]
    /\ pc' = [pc EXCEPT ![p] = "sz"]
    /\ calls' = Called(p, "sh")
    /\ UNCHANGED <<now, kv, today_str, success, msg, posted, putLog, kvAtStart,
                   lastRun, delivered, runs, overlapped, storeFault, gate, unit>>

\* get_shanghai_stocks() + get_shenzhen_stocks()
Concat(sh, sz) == sh \o sz

\* variant: a single record is not worth a message
AfterFetchSeveral(all) == IF Len(all) <= 1 THEN "done" ELSE "send"

\* `if not stocks: return`
AfterFetch(all) == IF all = <<>> THEN "done" ELSE "send"

\* main(), line 173, right operand and sum, and lines 175-177
FetchShenzhen(p) ==
    /\ pc[p] = "sz"
    /\ \E resp \in SzResponses :
          LET sz == get_shenzhen_stocks(resp)
              all == Concat(stocks[p], sz)
          IN  /\ stocks' = [stocks EXCEPT ![p] = all]
              /\ got' = [got EXCEPT ![p].sz = sz]
              /\ raised' = [raised EXCEPT ![p] = IF SzFails(resp) THEN @ \cup {"sz"} ELSE @]
              /\ pc' = [pc EXCEPT ![p] = AfterFetch(all)]
    /\ calls' = Called(p, "sz")
    /\ UNCHANGED <<now, kv, today_str, success, msg, posted, putLog, kvAtStart,
                   lastRun, delivered, runs, overlapped, storeFault, gate, unit>>

\* variant: the date is recorded whatever the send reported
AfterSendAlways(ok) == "put"

\* `if success: set_kv_state(today_str)`
AfterSend(ok) == IF ok THEN "put" ELSE "done"

\* main(), lines 180-184; delivered counts the sends that reported success
Send(p) ==
    /\ pc[p] = "send"
    /\ \E resp \in WhResponses :
          LET r == send_wecom_message(stocks[p], resp)
          IN  /\ success' = [success EXCEPT ![p] = r.success]
              /\ msg' = [msg EXCEPT ![p] = r.msg]
              /\ posted' = [posted EXCEPT ![p] = @ \o r.post]
              /\ calls' = [calls EXCEPT ![p]["send"] = @ + 1, ![p]["post"] = @ + Len(r.post)]
              /\ delivered' = IF r.success
                              THEN [delivered EXCEPT ![today_str[p]] = @ + 1]
                              ELSE delivered
              /\ pc' = [pc EXCEPT ![p] = AfterSend(r.success)]
    /\ UNCHANGED <<now, kv, today_str, stocks, putLog, got, raised, kvAtStart, lastRun,
                   runs, overlapped, storeFault, gate, unit>>

\* main(), lines 185-186; the value set_kv_state returns is dropped
RecordState(p) ==
    /\ pc[p] = "put"
    /\ \E outcome \in PutOutcomes :
          /\ kv' = StoreAfterPut(outcome, kv, today_str[p])
          /\ putLog' = [putLog EXCEPT ![p] = Append(@, [outcome |-> outcome,
                                                          returned |-> set_kv_state(outcome)])]
          /\ storeFault' = (storeFault \/ outcome # "ok")
    /\ calls' = Called(p, "put")
    /\ pc' = [pc EXCEPT ![p] = "done"]
    /\ UNCHANGED <<now, today_str, stocks, success, msg, posted, got, raised, kvAtStart,
                   lastRun, delivered, runs, overlapped, gate, unit>>

\* how the invocation ended
RunResult(p) ==
    IF calls[p]["send"] = 0 THEN "skipped"
    ELSE IF success[p] THEN "sent" ELSE "failed"

\* main() returns
Exit(p) ==
    /\ pc[p] = "done"
    /\ lastRun' = [date |-> today_str[p], result |-> RunResult(p)]
    /\ pc' = [pc EXCEPT ![p] = "idle"]
    /\ today_str' = [today_str EXCEPT ![p] = EmptyStr]
    /\ stocks' = [stocks EXCEPT ![p] = <<>>]
    /\ success' = [success EXCEPT ![p] = FALSE]
    /\ msg' = [msg EXCEPT ![p] = <<>>]
    /\ posted' = [posted EXCEPT ![p] = <<>>]
    /\ putLog' = [putLog EXCEPT ![p] = <<>>]
    /\ calls' = [calls EXCEPT ![p] = NoCalls]
    /\ got' = [got EXCEPT ![p] = NoneGot]
    /\ raised' = [raised EXCEPT ![p] = {}]
    /\ kvAtStart' = [kvAtStart EXCEPT ![p] = EmptyStr]
    /\ UNCHANGED <<now, kv, delivered, runs, overlapped, storeFault, gate, unit>>

Later(a, b) == a.day < b.day \/ (a.day = b.day /\ a.tod < b.tod)

\* time passes between invocations
Tick ==
    /\ \A p \in Procs : pc[p] = "idle"
    /\ runs < MaxRuns
    /\ \E t \in [day : Days, tod : ClockSamples] :
          /\ Later(now, t)
          /\ now' = t
    /\ UNCHANGED <<kv, pc, today_str, stocks, success, msg, posted, putLog, calls,
                   got, raised, kvAtStart, lastRun, delivered, runs, overlapped, storeFault, gate, unit>>

Next ==
    \/ \E p \in Procs : Start(p)
    \/ \E p \in Procs : CheckTradingTime(p)
    \/ \E p \in Procs : CheckSent(p)
    \/ \E p \in Procs : FetchShanghai(p)
    \/ \E p \in Procs : FetchShenzhen(p)
    \/ \E p \in Procs : Send(p)
    \/ \E p \in Procs : RecordState(p)
    \/ \E p \in Procs : Exit(p)
    \/ Tick

Spec == Init /\ [][Next]_vars

----------------------------------------------------------------------------
(* is_trading_time applied to every reading of the clock *)

InitGate ==
    /\ InitRuns
    /\ unit = UnitIdle
    /\ gate \in [now : [day : 1..7, tod : 0..(SecondsPerDay - 1)], result : {<<>>}]

CallGate ==
    /\ gate.result = <<>>
    /\ gate' = [gate EXCEPT !.result = <<is_trading_time(gate.now)>>]
    /\ UNCHANGED <<runVars, unit>>

NextGate == CallGate

SpecGate == InitGate /\ [][NextGate]_vars

----------------------------------------------------------------------------
(* send_wecom_message applied to every list of stocks and webhook response *)

InitSend ==
    /\ InitRuns
    /\ gate = GateIdle
    /\ unit \in [stocks : SeqsUpTo(StockRecords, MaxStocks), resp : WhResponses, result : {<<>>}]

CallSend ==
    /\ unit.result = <<>>
    /\ unit' = [unit EXCEPT !.result = <<send_wecom_message(unit.stocks, unit.resp)>>]
    /\ UNCHANGED <<runVars, gate>>

NextSend == CallSend

SpecSend == InitSend /\ [][NextSend]_vars

----------------------------------------------------------------------------
(* Properties *)

Finished(p) == pc[p] = "done"

\* C1: over non-overlapping runs of main(), whatever the store's reads and
\* writes do, at most one run per calendar date gets a successful delivery.
C1_AtMostOneDeliveryPerDate ==
    ~overlapped => \A d \in Dates : delivered[d] <= 1

\* C2: a run that starts inside trading hours while the store holds today's
\* date ends right after the state check: no fetcher call, no send (stated
\* for runs that do not overlap).
C2_NoCallsWhenAlreadySent ==
    \A p \in Procs :
        (~overlapped /\ today_str[p] # EmptyStr /\ kvAtStart[p] = today_str[p])
        => /\ pc[p] \in {"state", "done"}
           /\ calls[p]["sh"] = 0
           /\ calls[p]["sz"] = 0
           /\ calls[p]["send"] = 0

\* C3: is_trading_time is true exactly on Monday..Friday at a time of day in
\* [09:30, 11:30] or [13:00, 15:00], end points included.
C3_TradingTimeIff ==
    gate.result # <<>>
    => (gate.result[1]
        <=> /\ weekday(gate.now) \in 0..4
            /\ \/ gate.now.tod \in time(9, 30)..time(11, 30)
               \/ gate.now.tod \in time(13, 0)..time(15, 0))

\* a Friday at 11:30:00 sharp is trading time
C3_Witness ==
    /\ gate.result = <<TRUE>>
    /\ weekday(gate.now) = 4
    /\ gate.now.tod = time(11, 30)

\* C4: set_kv_state returns true only when the store now holds the date, and
\* false on a transport error, a timeout or an error status of the store.
C4_SetKvStateContract ==
    \A p \in Procs : \A i \in DOMAIN putLog[p] :
        /\ putLog[p][i].returned => kv = today_str[p]
        /\ putLog[p][i].outcome \in {"exception", "exception after write", "rejected"}
           => ~putLog[p][i].returned

\* C5: a run whose send reported success ends with the store holding the
\* run's date, so that a following get_kv_state returns it.
C5_StateWrittenAfterSuccess ==
    \A p \in Procs :
        (Finished(p) /\ success[p])
        => /\ kv = today_str[p]
           /\ get_kv_state("ok", kv) = today_str[p]

\* C6: a run whose send reported failure writes nothing to the store, and
\* leaves the store's value as it found it.
C6_FailureLeavesState ==
    \A p \in Procs :
        (Finished(p) /\ calls[p]["send"] = 1 /\ ~success[p])
        => /\ calls[p]["put"] = 0
           /\ putLog[p] = <<>>
           /\ ~overlapped => kv = kvAtStart[p]

\* the webhook answered errcode 93000 "invalid webhook"
C6_Witness ==
    \E p \in Procs :
        /\ Finished(p)
        /\ calls[p]["send"] = 1
        /\ msg[p] = <<"wecom error", <<"invalid webhook">>>>
        /\ ~overlapped
        /\ kv = kvAtStart[p]

\* C7: a fetcher that catches an exception contributes no record and does not
\* stop main(): the other fetcher is called, and what it returned is handed to
\* send_wecom_message, Shanghai records before Shenzhen records.
C7_FetcherFailureIsolated ==
    \A p \in Procs :
        raised[p] # {}
        => /\ "sh" \in raised[p] => (got[p].sh = <<>> /\ pc[p] \in {"sz", "send", "put", "done"})
           /\ "sz" \in raised[p] => got[p].sz = <<>>
           /\ pc[p] \in {"send", "put", "done"}
              => /\ calls[p]["sh"] = 1
                 /\ calls[p]["sz"] = 1
                 /\ stocks[p] = got[p].sh \o got[p].sz
           /\ (Finished(p) /\ got[p].sh \o got[p].sz # <<>>)
              => /\ calls[p]["send"] = 1
                 /\ posted[p] = <<Payload(got[p].sh \o got[p].sz)>>

\* Shanghai failed, Shenzhen's record was posted
C7_Witness ==
    \E p \in Procs :
        /\ raised[p] = {"sh"}
        /\ Finished(p)
        /\ got[p].sz # <<>>
        /\ posted[p] = <<Payload(got[p].sz)>>

\* C8: send_wecom_message reports success exactly for a non-empty list and a
\* JSON answer with errcode 0; an empty list fails with "no data" and no POST;
\* any other answer fails with the server's message or the exception's text.
C8_SendContract ==
    unit.result # <<>>
    => LET r == unit.result[1]
           accepted == /\ unit.resp.kind = "json"
                       /\ unit.resp.has_errcode
                       /\ unit.resp.errcode = 0
       IN  /\ r.success <=> (unit.stocks # <<>> /\ accepted)
           /\ unit.stocks = <<>> => (r.post = <<>> /\ r.msg = <<"no stock data">>)
           /\ unit.stocks # <<>> => r.post = <<Payload(unit.stocks)>>
           /\ (unit.stocks # <<>> /\ unit.resp.kind = "json" /\ ~accepted)
              => r.msg = <<"wecom error", unit.resp.errmsg>>
           /\ (unit.stocks # <<>> /\ unit.resp.kind # "json")
              => (Len(r.msg) = 2 /\ r.msg[1] = "push failed")

\* two stocks, errcode 0
C8_Witness ==
    /\ unit.result # <<>>
    /\ Len(unit.stocks) = 2
    /\ unit.result[1].success

\* C9: without overlap and with a store that serves every request, no date
\* gets two successful deliveries; two overlapping runs can both read the
\* store before either writes it and both deliver.
C9_NoDoubleSendWhenSequential ==
    (~overlapped /\ ~storeFault) => \A d \in Dates : delivered[d] <= 1

\* both runs have read the store, both have delivered, neither has written
C9_DoubleSend ==
    /\ overlapped
    /\ ~storeFault
    /\ \E d \in Dates :
          /\ delivered[d] = 2
          /\ \A p \in Procs :
                /\ pc[p] = "put"
                /\ today_str[p] = d
                /\ success[p]
                /\ calls[p]["get"] = 1
                /\ calls[p]["put"] = 0

PreviousFailedToday(p) ==
    /\ ~overlapped
    /\ lastRun.result = "failed"
    /\ lastRun.date = today_str[p]

\* C10: a run makes each call at most once; the run that follows a failed run
\* on the same date and passes the time gate calls the fetchers when the store
\* serves its read, and calls send_wecom_message again when they return a record.
C10_RetryByNextRun ==
    \A p \in Procs :
        /\ \A op \in Ops : calls[p][op] <= 1
        /\ (Finished(p) /\ PreviousFailedToday(p) /\ ~storeFault)
           => (calls[p]["sh"] = 1 /\ calls[p]["sz"] = 1)
        /\ (Finished(p) /\ PreviousFailedToday(p)
            /\ calls[p]["sh"] = 1 /\ calls[p]["sz"] = 1 /\ stocks[p] # <<>>)
           => (calls[p]["send"] = 1 /\ calls[p]["post"] = 1)

\* the run after a failed one has sent again
C10_Witness ==
    \E p \in Procs :
        /\ Finished(p)
        /\ PreviousFailedToday(p)
        /\ ~storeFault
        /\ calls[p]["send"] = 1

====
